---- MODULE Spec2Model ----
(***************************************************************************)
(* Voxel render: the grid evaluation pass of renderer.js (updateCubes) and *)
(* the application loop that drives it (compile, validate, animate).       *)
(*                                                                         *)
(* JavaScript runs every handler to completion, so a handler that calls    *)
(* updateCubes is modelled as its own action followed by the steps of the  *)
(* pass (one per cell) and the end of the pass; no event is taken while a  *)
(* pass is running (pc # "idle").                                          *)
(***************************************************************************)
EXTENDS Integers, Sequences, FiniteSets, TLC

\* The largest grid size the application accepts. The source uses 50 (and
\* MAX_CUBES = 50 * 50 * 50); the model keeps the relation between the two and
\* scales the number down so that a full grid can be enumerated.
MAX_GRID == 2

\* Number of updateCubes passes followed when the exported function is called
\* directly (SpecCore).
MaxPasses == 2

\* Largest time value handed to a direct call (SpecCore).
MaxTime == 1

\* Number of animation-frame requests followed in the application (Spec).
MaxFrames == 4

MAX_CUBES == MAX_GRID * MAX_GRID * MAX_GRID

-----------------------------------------------------------------------------
(* JavaScript values returned by a visibility function.  A number is kept   *)
(* as hi * 65536 + lo with 0 <= lo < 65536, so that values beyond 32 bits   *)
(* can be written down and the 32-bit conversion of >> and & is explicit.   *)

JSBool(b) == [type |-> "boolean", hi |-> 0, lo |-> IF b THEN 1 ELSE 0]
JSNum(hi, lo) == [type |-> "number", hi |-> hi, lo |-> lo]
JSNull == [type |-> "null", hi |-> 0, lo |-> 0]
JSUndefined == [type |-> "undefined", hi |-> 0, lo |-> 0]
\* The completion of a call that threw.
Thrown == [type |-> "throw", hi |-> 0, lo |-> 0]

\* if (result): ToBoolean of the value.
Truthy(v) ==
    \/ v.type = "boolean" /\ v.lo = 1
    \/ v.type = "number" /\ ~(v.hi = 0 /\ v.lo = 0)

\* The test without its result !== 1.
IsHexResultNoOne(v) == v.type = "number"

\* typeof result === "number" && result !== true && result !== 1
IsHexResult(v) ==
    v.type = "number" /\ ~(v.hi = 0 /\ v.lo = 1)

\* ToInt32(v) >> 16: the signed upper half of the low 32 bits.
Int32Shr16(v) ==
    LET m == v.hi % 65536 IN IF m >= 32768 THEN m - 65536 ELSE m

\* ToInt32(v) >> 8
Int32Shr8(v) == Int32Shr16(v) * 256 + (v.lo \div 256)

\* A color channel is a fraction <<numerator, denominator>>.
DefaultColor == << <<38, 100>>, <<69, 100>>, <<94, 100>> >>

\* setHex without the & 255 on the upper channels.
setHexNoMask(v) ==
    << <<Int32Shr16(v), 255>>, <<Int32Shr8(v), 255>>, <<v.lo % 256, 255>> >>

\* THREE.Color.setHex: r = (hex >> 16 & 255) / 255, g = (hex >> 8 & 255) / 255,
\* b = (hex & 255) / 255.
setHex(v) ==
    << <<Int32Shr16(v) % 256, 255>>,
       <<Int32Shr8(v) % 256, 255>>,
       <<v.lo % 256, 255>> >>

\* The color stored for a visible cell.
ColorOf(v) == IF IsHexResult(v) THEN setHex(v) ELSE DefaultColor

\* The offset taken as gridSize / 2, without the half cell.
PositionOfNoHalf(cx, cy, cz, gridSize) ==
    << 2 * cx - gridSize, 2 * cy - gridSize, 2 * cz - gridSize >>

\* dummy.position.set(x - offset, y - offset, z - offset) with
\* offset = gridSize / 2 - 0.5; coordinates are kept doubled (2 * (x - offset)).
PositionOf(cx, cy, cz, gridSize) ==
    << 2 * cx - (gridSize - 1), 2 * cy - (gridSize - 1), 2 * cz - (gridSize - 1) >>

-----------------------------------------------------------------------------
(* Visibility functions: the user code handed to updateCubes.               *)

SampleValues ==
    << JSBool(FALSE), JSBool(TRUE), JSNum(255, 32832), JSNull,
       JSNum(0, 1), JSNum(-1, 65535), JSUndefined, JSNum(511, 515),
       JSNum(0, 0), JSNum(65537, 515), JSNum(32768, 0), JSNum(0, 2) >>

FaultCells == { <<0, 0, 0>>, <<MAX_GRID - 1, 0, 1>>, <<MAX_GRID, MAX_GRID, MAX_GRID>> }

Fn(kind, c) == [kind |-> kind, c |-> c]
NoCell == <<0, 0, 0>>

Classifiers ==
    { Fn(k, NoCell) : k \in {"all", "diag", "palette", "wave"} }
    \cup { Fn(k, c) : k \in {"faultAt", "falseAt"}, c \in FaultCells }

\* visibilityFunction(x, y, z, gridSize, time): the value returned, or Thrown.
Apply(fn, cx, cy, cz, size, time) ==
    CASE fn.kind = "all" -> JSBool(TRUE)
      [] fn.kind = "diag" -> JSBool(cx = cy /\ cy = cz)
      [] fn.kind = "palette" ->
            SampleValues[(((cx * size + cy) * size + cz + time) % Len(SampleValues)) + 1]
      [] fn.kind = "wave" ->
            IF (cx + cy + cz + time) % 2 = 0
            THEN JSNum(cx * 85, cy * 85 * 256 + cz * 85)
            ELSE JSBool(FALSE)
      [] fn.kind = "faultAt" ->
            IF <<cx, cy, cz>> = fn.c THEN Thrown ELSE JSBool(TRUE)
      [] fn.kind = "falseAt" ->
            IF <<cx, cy, cz>> = fn.c THEN JSBool(FALSE) ELSE JSBool(TRUE)

-----------------------------------------------------------------------------
(* The application's inputs: the text of the code editor and of the grid    *)
(* size field.                                                              *)

NoFn == Fn("none", NoCell)

\* Editor contents. text is the code as a sequence of fragments; parses says
\* whether new Function(...) accepts it and fn is the function it then builds.
Code(text, parses, fn) == [text |-> text, parses |-> parses, fn |-> fn]

DefaultCode == Code(<<"return", "wave()", ";">>, TRUE, Fn("wave", NoCell))

CodeSamples ==
    { DefaultCode,
      Code(<<"if(x+y+z==0)", "throw", "1", ";", "return", "true">>, TRUE,
           Fn("faultAt", <<0, 0, 0>>)),
      Code(<<"return", "(">>, FALSE, NoFn),
      Code(<<"return", "document.", "title">>, TRUE, Fn("all", NoCell)),
      Code(<<"window.", "close()", ";", "return", "true">>, TRUE, Fn("all", NoCell)),
      Code(<<"return", "eval(", "1", ")">>, TRUE, Fn("all", NoCell)) }

\* code.includes(fragment)
Includes(text, fragment) == \E i \in DOMAIN text : text[i] = fragment

UnsafeMessage == "Error: Potentially unsafe code detected. Avoid direct DOM/BOM access."
SyntaxMessage == "Error: SyntaxError"
GridMessage == "Grid size must be between 1 and 50."

\* compileUserFunction(code): the function, or null (NoFn) and the message shown.
compileUserFunction(code) ==
    IF \/ Includes(code.text, "document.")
       \/ Includes(code.text, "window.")
       \/ Includes(code.text, "eval(")
    THEN [fn |-> NoFn, msg |-> UnsafeMessage]
    ELSE IF ~code.parses
    THEN [fn |-> NoFn, msg |-> SyntaxMessage]
    ELSE [fn |-> code.fn, msg |-> ""]

DigitVal ==
    [c \in {"0", "1", "2", "3", "4", "5", "6", "7", "8", "9"} |->
        CASE c = "0" -> 0 [] c = "1" -> 1 [] c = "2" -> 2 [] c = "3" -> 3
          [] c = "4" -> 4 [] c = "5" -> 5 [] c = "6" -> 6 [] c = "7" -> 7
          [] c = "8" -> 8 [] c = "9" -> 9]

DigitChar == <<"0", "1", "2", "3", "4", "5", "6", "7", "8", "9">>

\* String(n) for 0 <= n < 100 (gridSizeInput.value = currentGridSize).
ToStr(n) ==
    IF n < 10 THEN <<DigitChar[n + 1]>>
    ELSE <<DigitChar[(n \div 10) + 1], DigitChar[(n % 10) + 1]>>

RECURSIVE SkipSpace(_)
SkipSpace(s) == IF s # <<>> /\ Head(s) = " " THEN SkipSpace(Tail(s)) ELSE s

RECURSIVE ReadDigits(_, _)
ReadDigits(s, acc) ==
    IF s # <<>> /\ Head(s) \in DOMAIN DigitVal
    THEN ReadDigits(Tail(s), acc * 10 + DigitVal[Head(s)])
    ELSE acc

\* parseInt(s, 10): leading white space, an optional sign, the longest run of
\* digits; NaN when there is none.
parseInt(s) ==
    LET t == SkipSpace(s)
        signed == t # <<>> /\ Head(t) \in {"-", "+"}
        u == IF signed THEN Tail(t) ELSE t
    IN  IF u = <<>> \/ Head(u) \notin DOMAIN DigitVal
        THEN [nan |-> TRUE, val |-> 0]
        ELSE [nan |-> FALSE,
              val |-> IF signed /\ Head(t) = "-" THEN 0 - ReadDigits(u, 0)
                                                 ELSE ReadDigits(u, 0)]

\* The range check without its lower bound.
ValidGridNoLower(n) == ~n.nan /\ n.val <= MAX_GRID

\* !(isNaN(newGridSize) || newGridSize < 1 || newGridSize > 50)
ValidGrid(n) == ~n.nan /\ n.val >= 1 /\ n.val <= MAX_GRID

GridInputs ==
    { ToStr(n) : n \in {0, 1, MAX_GRID, MAX_GRID + 1} }
    \cup { <<>>, <<"1", "p", "x">>, <<" ", "-", "1">> }

\* let currentGridSize = 20: a size inside the accepted range.
InitialGridSize == (MAX_GRID + 1) \div 2

-----------------------------------------------------------------------------
VARIABLES
    \* renderer.js
    positions,      \* instanceMatrix: slot -> translation (doubled)
    colors,         \* instanceColor.array: slot -> color
    meshCount,      \* instancedCubeMesh.count
    \* the running updateCubes call
    pc,             \* "idle", "loop" (in the cell loops), "end" (after them)
    passFn, passGrid, passTime,
    x, y, z, visibleCount,
    after,          \* what the calling handler does when the pass returns
    \* what a pass did (kept until the next pass starts)
    calls,          \* cells the function was invoked for, in order
    results,        \* the value of each of those calls
    faults,         \* cells reported by console.error
    warns,          \* number of console.warn reports
    outOfRange,     \* a slot >= MAX_CUBES was written
    directCalls,    \* number of direct calls of updateCubes
    \* the application
    started,        \* main() has run
    userVisibilityFunction,
    currentGridSize,
    animationFrameId,   \* <<>> for null, <<id>> otherwise
    currentTime,        \* in steps of 1/60
    editor,             \* codeEditor.value
    gridInput,          \* gridSizeInput.value
    errorMessage,       \* errorMessageDiv.textContent
    debouncePending,    \* the debounce timer is set
    pendingFrames,      \* handles of the animationLoop callbacks the browser holds
    nextFrameId,        \* the last handle requestAnimationFrame returned
    \* what the last handler was, and whether the last compile was a rejection
    lastEvent,
    rejected,
    resetSincePass  \* a successful compile has reset the time since the last pass began

rendererVars == <<positions, colors, meshCount>>
passVars == <<pc, passFn, passGrid, passTime, x, y, z, visibleCount, after>>
passLog == <<calls, results, faults, warns>>
logVars == <<passLog, outOfRange, directCalls>>
schedVars == <<animationFrameId, pendingFrames, nextFrameId>>
appVars == <<started, userVisibilityFunction, currentGridSize, schedVars, currentTime,
             editor, gridInput, errorMessage, debouncePending, lastEvent, rejected,
             resetSincePass>>
vars == <<rendererVars, passVars, logVars, appVars>>

Slots == 0 .. (MAX_CUBES - 1)

\* A typed array ignores a write outside its length.
WriteSlot(arr, i, e) == IF i \in DOMAIN arr THEN [arr EXCEPT ![i] = e] ELSE arr

\* The loop headers after the body of cell (cx, cy, cz): z++, then y++, then x++.
NextCell(cx, cy, cz, n) ==
    IF cz + 1 < n THEN <<cx, cy, cz + 1>>
    ELSE IF cy + 1 < n THEN <<cx, cy + 1, 0>>
    ELSE IF cx + 1 < n THEN <<cx + 1, 0, 0>>
    ELSE <<cx + 1, cy + 1, cz + 1>>

\* The capacity test off by one.
HasRoomOffByOne(count) == count <= MAX_CUBES

\* if (visibleCount < MAX_CUBES)
HasRoom(count) == count < MAX_CUBES

\* A visible cell without room dropped silently, as if it were not visible.
StepKindNoOverflow(result, count) ==
    IF result = Thrown THEN "fault"
    ELSE IF ~Truthy(result) \/ count >= MAX_CUBES THEN "skip"
    ELSE "store"

\* What the loop body does with the completion of the call: the catch block
\* ("fault"), a falsy result ("skip"), a visible cell with room ("store") or
\* without ("overflow").
StepKind(result, count) ==
    IF result = Thrown THEN "fault"
    ELSE IF ~Truthy(result) THEN "skip"
    ELSE IF HasRoom(count) THEN "store"
    ELSE "overflow"

\* The catch block leaving the loops instead of continuing.
AfterCellAbortOnFault(kind, cx, cy, cz, n) ==
    IF kind \in {"overflow", "fault"} THEN NextCell(n, n, n, n)
    ELSE NextCell(cx, cy, cz, n)

\* The overflow branch without its x = y = z = gridSize.
AfterCellNoBreak(kind, cx, cy, cz, n) == NextCell(cx, cy, cz, n)

\* The loop variables at the next loop header. On overflow the body sets
\* x = y = z = gridSize before the headers run; continue goes to z++.
AfterCell(kind, cx, cy, cz, n) ==
    IF kind = "overflow" THEN NextCell(n, n, n, n) ELSE NextCell(cx, cy, cz, n)

-----------------------------------------------------------------------------
(* The animation-frame bookkeeping, on a record of the three variables.     *)

NoFrame == <<>>

Sched == [id |-> animationFrameId, pending |-> pendingFrames, next |-> nextFrameId]

SetSched(s) ==
    /\ animationFrameId' = s.id
    /\ pendingFrames' = s.pending
    /\ nextFrameId' = s.next

\* The request made without keeping its handle.
requestAnimationFrameNoAssign(s) ==
    [id |-> s.id, pending |-> s.pending \cup {s.next + 1}, next |-> s.next + 1]

\* animationFrameId = requestAnimationFrame(animationLoop)
requestAnimationFrame(s) ==
    [id |-> <<s.next + 1>>, pending |-> s.pending \cup {s.next + 1}, next |-> s.next + 1]

\* The handle cleared without cancelAnimationFrame.
stopAnimationLoopNoCancel(s) == [id |-> NoFrame, pending |-> s.pending, next |-> s.next]

\* stopAnimationLoop()
stopAnimationLoop(s) ==
    IF s.id # NoFrame
    THEN [id |-> NoFrame, pending |-> s.pending \ {s.id[1]}, next |-> s.next]
    ELSE s

\* startAnimationLoop()
startAnimationLoop(fn, s) ==
    IF fn = NoFn THEN stopAnimationLoop(s)
    ELSE IF s.id = NoFrame THEN requestAnimationFrame(s)
    ELSE s

\* currentTime += 1 / 60
TimeAfterTick(t) == t + 1

\* The time kept across a successful compile.
TimeAfterCompileKeep(t) == t

\* currentTime = 0 on a successful compile
TimeAfterCompile(t) == 0

-----------------------------------------------------------------------------
InitRenderer ==
    /\ positions = [i \in Slots |-> <<0, 0, 0>>]
    /\ colors = [i \in Slots |-> DefaultColor]
    /\ meshCount = MAX_CUBES

InitPass ==
    /\ pc = "idle"
    /\ passFn = NoFn
    /\ passGrid = 0
    /\ passTime = 0
    /\ x = 0 /\ y = 0 /\ z = 0
    /\ visibleCount = 0
    /\ after = "none"
    /\ calls = <<>>
    /\ results = <<>>
    /\ faults = <<>>
    /\ warns = 0
    /\ outOfRange = FALSE
    /\ directCalls = 0

\* The module state of the application when main() reaches its call of
\* processCodeAndRender.
InitApp ==
    /\ started = FALSE
    /\ userVisibilityFunction = NoFn
    /\ currentGridSize = InitialGridSize
    /\ animationFrameId = NoFrame
    /\ currentTime = 0
    /\ editor = DefaultCode
    /\ gridInput = ToStr(InitialGridSize)
    /\ errorMessage = ""
    /\ debouncePending = FALSE
    /\ pendingFrames = {}
    /\ nextFrameId = 0
    /\ lastEvent = "none"
    /\ rejected = FALSE
    /\ resetSincePass = FALSE

Init == InitRenderer /\ InitPass /\ InitApp

\* updateCubes(fn, gridSize, time) up to the first loop header.
BeginPass(fn, gridSize, time, then) ==
    /\ passFn' = fn
    /\ passGrid' = gridSize
    /\ passTime' = time
    /\ x' = 0 /\ y' = 0 /\ z' = 0
    /\ visibleCount' = 0
    /\ pc' = IF 0 < gridSize THEN "loop" ELSE "end"
    /\ after' = then
    /\ calls' = <<>>
    /\ results' = <<>>
    /\ faults' = <<>>
    /\ warns' = 0
    /\ UNCHANGED <<rendererVars, outOfRange>>

\* One iteration of the innermost loop body, and the loop headers after it.
CellStep ==
    /\ pc = "loop"
    /\ LET result == Apply(passFn, x, y, z, passGrid, passTime)
           cell == <<x, y, z>>
           kind == StepKind(result, visibleCount)
           nxt == AfterCell(kind, x, y, z, passGrid)
       IN  /\ calls' = Append(calls, cell)
           /\ results' = Append(results, result)
           /\ faults' = IF kind = "fault" THEN Append(faults, cell) ELSE faults
           /\ warns' = IF kind = "overflow" THEN warns + 1 ELSE warns
           /\ positions' = IF kind = "store"
                           THEN WriteSlot(positions, visibleCount,
                                          PositionOf(x, y, z, passGrid))
                           ELSE positions
           /\ colors' = IF kind = "store"
                        THEN WriteSlot(colors, visibleCount, ColorOf(result))
                        ELSE colors
           /\ outOfRange' = (outOfRange \/ (kind = "store" /\ visibleCount \notin Slots))
           /\ visibleCount' = IF kind = "store" THEN visibleCount + 1 ELSE visibleCount
           /\ x' = nxt[1] /\ y' = nxt[2] /\ z' = nxt[3]
           /\ pc' = IF nxt[1] < passGrid THEN "loop" ELSE "end"
    /\ UNCHANGED <<meshCount, passFn, passGrid, passTime, after, directCalls, appVars>>

\* instancedCubeMesh.count = visibleCount and the return to the caller; in
\* animationLoop the caller then requests the next frame.
EndPass ==
    /\ pc = "end"
    /\ meshCount' = visibleCount
    /\ pc' = "idle"
    /\ SetSched(IF after = "raf" THEN requestAnimationFrame(Sched) ELSE Sched)
    /\ UNCHANGED <<positions, colors, passFn, passGrid, passTime, x, y, z,
                   visibleCount, after, logVars>>
    /\ UNCHANGED <<started, userVisibilityFunction, currentGridSize, currentTime,
                   editor, gridInput, errorMessage, debouncePending, lastEvent, rejected,
                   resetSincePass>>

\* A direct call of the exported updateCubes; without a function it returns
\* at once.
DirectCall ==
    /\ pc = "idle"
    /\ directCalls < MaxPasses
    /\ directCalls' = directCalls + 1
    /\ \E fn \in Classifiers \cup {NoFn}, n \in 1 .. (MAX_GRID + 1), t \in 0 .. MaxTime :
          IF fn = NoFn
          THEN UNCHANGED <<rendererVars, passVars, passLog, outOfRange>>
          ELSE BeginPass(fn, n, t, "none")
    /\ UNCHANGED appVars

-----------------------------------------------------------------------------
(* The handlers of the application.                                         *)

\* renderCurrentState() would reach its call of updateCubes.
WillRender(fn) == fn # NoFn /\ ValidGrid(parseInt(gridInput))

\* renderCurrentState(), called with the function and time the handler has set
\* and msg on display.
RenderCurrentState(fn, time, then, msg) ==
    IF fn = NoFn
    THEN /\ errorMessage' = msg
         /\ UNCHANGED <<currentGridSize, rendererVars, passVars, passLog, outOfRange>>
    ELSE IF ~ValidGrid(parseInt(gridInput))
    THEN /\ errorMessage' = GridMessage
         /\ UNCHANGED <<currentGridSize, rendererVars, passVars, passLog, outOfRange>>
    ELSE /\ errorMessage' = msg
         /\ currentGridSize' = parseInt(gridInput).val
         /\ BeginPass(fn, parseInt(gridInput).val, time, then)

\* processCodeAndRender()
ProcessCodeAndRender ==
    LET compiled == compileUserFunction(editor) IN
    /\ lastEvent' = "process"
    /\ IF compiled.fn # NoFn
       THEN /\ userVisibilityFunction' = compiled.fn
            /\ currentTime' = TimeAfterCompile(currentTime)
            /\ rejected' = FALSE
            /\ resetSincePass' = ~WillRender(compiled.fn)
            /\ SetSched(IF animationFrameId = NoFrame
                        THEN startAnimationLoop(compiled.fn, Sched)
                        ELSE Sched)
            /\ RenderCurrentState(compiled.fn, TimeAfterCompile(currentTime), "none", "")
       ELSE /\ rejected' = TRUE
            /\ errorMessage' = compiled.msg
            /\ SetSched(stopAnimationLoop(Sched))
            /\ UNCHANGED <<userVisibilityFunction, currentTime, currentGridSize,
                           rendererVars, passVars, passLog, outOfRange, resetSincePass>>
    /\ UNCHANGED <<editor, gridInput, directCalls>>

CanRequest == nextFrameId < MaxFrames

\* main(): the first compile and render, of the default code.
Main ==
    /\ pc = "idle" /\ ~started
    /\ started' = TRUE
    /\ ProcessCodeAndRender
    /\ UNCHANGED debouncePending

\* runButton click
RunClick ==
    /\ pc = "idle" /\ started /\ CanRequest
    /\ ProcessCodeAndRender
    /\ UNCHANGED <<started, debouncePending>>

\* codeEditor input: the text changes and the debounce timer is (re)set.
EditorInput ==
    /\ pc = "idle" /\ started /\ CanRequest
    /\ \E code \in CodeSamples : editor' = code
    /\ debouncePending' = TRUE
    /\ lastEvent' = "input"
    /\ UNCHANGED <<rendererVars, passVars, logVars, started, userVisibilityFunction,
                   currentGridSize, schedVars, currentTime, gridInput, errorMessage,
                   rejected, resetSincePass>>

\* The debounce timer fires.
DebounceFire ==
    /\ pc = "idle" /\ started /\ CanRequest
    /\ debouncePending
    /\ debouncePending' = FALSE
    /\ ProcessCodeAndRender
    /\ UNCHANGED started

\* The user edits the grid size field.
GridEdit ==
    /\ pc = "idle" /\ started /\ CanRequest
    /\ \E v \in GridInputs : gridInput' = v
    /\ lastEvent' = "input"
    /\ UNCHANGED <<rendererVars, passVars, logVars, started, userVisibilityFunction,
                   currentGridSize, schedVars, currentTime, editor, errorMessage,
                   debouncePending, rejected, resetSincePass>>

\* gridSizeInput change
GridChange ==
    /\ pc = "idle" /\ started /\ CanRequest
    /\ IF userVisibilityFunction # NoFn
       THEN ProcessCodeAndRender
       ELSE /\ lastEvent' = "input"
            /\ UNCHANGED <<rendererVars, passVars, logVars, userVisibilityFunction,
                           currentGridSize, schedVars, currentTime, editor, gridInput,
                           errorMessage, rejected, resetSincePass>>
    /\ UNCHANGED <<started, debouncePending>>

\* The browser runs a pending animationLoop callback.
AnimationFrame ==
    /\ pc = "idle" /\ started /\ CanRequest
    /\ \E id \in pendingFrames :
          LET fired == [Sched EXCEPT !.pending = @ \ {id}]
              t == TimeAfterTick(currentTime)
          IN  /\ currentTime' = t
              /\ RenderCurrentState(userVisibilityFunction, t, "raf", errorMessage)
              /\ SetSched(IF WillRender(userVisibilityFunction)
                          THEN fired
                          ELSE requestAnimationFrame(fired))
    /\ lastEvent' = "tick"
    /\ resetSincePass' = (resetSincePass /\ ~WillRender(userVisibilityFunction))
    /\ UNCHANGED <<directCalls, started, userVisibilityFunction, editor, gridInput,
                   debouncePending, rejected>>

NextCore == DirectCall \/ CellStep \/ EndPass

SpecCore == Init /\ [][NextCore]_vars

Next ==
    \/ Main \/ RunClick \/ EditorInput \/ DebounceFire \/ GridEdit \/ GridChange
    \/ AnimationFrame \/ CellStep \/ EndPass

Spec == Init /\ [][Next]_vars

-----------------------------------------------------------------------------
(* What the pass is expected to produce, stated on the grid as a whole.     *)

Min(a, b) == IF a < b THEN a ELSE b

\* The k-th cell (from 0) of an n * n * n grid, x outermost and z innermost.
CellAt(k, n) == << k \div (n * n), (k \div n) % n, k % n >>

CellsInOrder(n) == [k \in 1 .. n * n * n |-> CellAt(k - 1, n)]

\* The values that make a cell not visible.
FalsyValues == { JSBool(FALSE), JSNull, JSUndefined, JSNum(0, 0) }

\* The function returns a visible value for the cell, without raising.
Shows(fn, c, n, t) ==
    LET r == Apply(fn, c[1], c[2], c[3], n, t)
    IN  r # Thrown /\ r \notin FalsyValues

VisibleCells(fn, n, t) ==
    LET Test(c) == Shows(fn, c, n, t) IN SelectSeq(CellsInOrder(n), Test)

\* (c - o) for o = n / 2 - 0.5, doubled.
Centered(c, n) == << 2 * c[1] - n + 1, 2 * c[2] - n + 1, 2 * c[3] - n + 1 >>

\* The number of visible values among the first i calls of the running pass.
ShownUpTo(i) ==
    Cardinality({ k \in 1 .. i : results[k] # Thrown /\ results[k] \notin FalsyValues })

PassDone == pc = "idle" /\ passGrid > 0

-----------------------------------------------------------------------------
\* C1: after a pass, slot i (i < visibleCount) holds the centered position of
\* the i-th cell, in x-y-z order, for which the function returned a visible
\* value without raising; the count is the number of such cells cut at the
\* capacity, and for the always-true function it is min(gridSize^3, capacity).
C1_OrderedVisiblePrefix ==
    PassDone =>
        LET vis == VisibleCells(passFn, passGrid, passTime) IN
        /\ visibleCount = Min(Len(vis), MAX_CUBES)
        /\ meshCount = visibleCount
        /\ \A i \in 0 .. (visibleCount - 1) : positions[i] = Centered(vis[i + 1], passGrid)
        /\ passFn.kind = "all" =>
              visibleCount = Min(passGrid * passGrid * passGrid, MAX_CUBES)

\* A pass over a grid larger than the capacity whose first cell raised: slot 0
\* holds the second cell and the buffer is full.
C1_Witness ==
    /\ PassDone
    /\ passFn = Fn("faultAt", <<0, 0, 0>>)
    /\ passGrid = MAX_GRID + 1
    /\ visibleCount = MAX_CUBES
    /\ positions[0] = Centered(<<0, 0, 1>>, passGrid)

\* C2: in every state of every pass, for every function and grid size (also
\* above the accepted range), 0 <= visibleCount <= MAX_CUBES, no slot at or
\* beyond MAX_CUBES is written, the buffers keep their size and the published
\* count is within the same bound.
C2_CountWithinCapacity ==
    /\ visibleCount \in 0 .. MAX_CUBES
    /\ meshCount \in 0 .. MAX_CUBES
    /\ ~outOfRange
    /\ DOMAIN positions = Slots
    /\ DOMAIN colors = Slots

\* A pass over an oversized grid, stopped with the buffer full.
C2_Witness ==
    /\ pc = "end"
    /\ passGrid > MAX_GRID
    /\ visibleCount = MAX_CUBES
    /\ warns = 1

\* C3: when the function raised for one cell c of a pass, the pass still
\* evaluated every cell (unless the capacity stopped it), exactly one fault was
\* reported, for c, c has no instance, and count, order and contents are those
\* of the function that returns false at c and agrees elsewhere.
C3_FaultIsolated ==
    (PassDone /\ passFn.kind = "faultAt" /\ faults # <<>>) =>
        LET twin == Fn("falseAt", passFn.c)
            vis == VisibleCells(twin, passGrid, passTime)
            k == Min(Len(vis), MAX_CUBES)
        IN  /\ faults = <<passFn.c>>
            /\ visibleCount = k
            /\ meshCount = k
            /\ \A i \in 0 .. (k - 1) :
                  /\ positions[i] = Centered(vis[i + 1], passGrid)
                  /\ positions[i] # Centered(passFn.c, passGrid)
                  /\ colors[i] = DefaultColor
            /\ warns = 0 => calls = CellsInOrder(passGrid)

\* A full-size grid whose cell in the middle of the order raised: every other
\* cell has an instance.
C3_Witness ==
    /\ PassDone
    /\ passFn = Fn("faultAt", <<MAX_GRID - 1, 0, 1>>)
    /\ passGrid = MAX_GRID
    /\ faults = <<passFn.c>>
    /\ visibleCount = MAX_CUBES - 1

\* C4: a pass whose function marks more than MAX_CUBES cells visible ends with
\* visibleCount = MAX_CUBES, the first MAX_CUBES visible cells in the buffer,
\* and exactly one capacity warning.
C4_TruncatesOnce ==
    /\ warns <= 1
    /\ PassDone =>
          LET vis == VisibleCells(passFn, passGrid, passTime) IN
          Len(vis) > MAX_CUBES =>
              /\ visibleCount = MAX_CUBES
              /\ meshCount = MAX_CUBES
              /\ warns = 1
              /\ \A i \in 0 .. (MAX_CUBES - 1) :
                    positions[i] = Centered(vis[i + 1], passGrid)

\* The wave function on an oversized grid, cut at the capacity.
C4_Witness ==
    /\ PassDone
    /\ passFn.kind = "wave"
    /\ visibleCount = MAX_CUBES
    /\ warns = 1

\* C5 as stated: no cell is evaluated once the buffer is full, i.e. every call
\* of the running pass was made with fewer than MAX_CUBES visible cells before it.
C5_NoCallAfterFull ==
    \A i \in 1 .. Len(calls) : ShownUpTo(i - 1) < MAX_CUBES

\* C5 amended: with the buffer full the pass keeps evaluating cells until one
\* more is visible; that call is the last one of the pass.
C5_StopsAtNextVisible ==
    \A i \in 1 .. Len(calls) :
        /\ ShownUpTo(i - 1) <= MAX_CUBES
        /\ ShownUpTo(i) > MAX_CUBES => (i = Len(calls) /\ pc # "loop")

\* A pass that filled the buffer, then evaluated a cell that was not visible,
\* then stopped at the next visible one with cells left over.
C5_Witness ==
    /\ pc = "end"
    /\ warns = 1
    /\ Len(calls) < passGrid * passGrid * passGrid
    /\ \E i \in 1 .. Len(calls) :
          ShownUpTo(i - 1) = MAX_CUBES /\ results[i] \in FalsyValues

-----------------------------------------------------------------------------
\* The step is a handler that called renderCurrentState: an animation frame, or
\* processCodeAndRender with a successful compile.
CalledRender ==
    pc = "idle" /\ (lastEvent' = "tick" \/ (lastEvent' = "process" /\ ~rejected'))

\* The field does not parse to an integer in [1, MAX_GRID].
GridInputInvalid ==
    LET n == parseInt(gridInput) IN n.nan \/ n.val \notin 1 .. MAX_GRID

\* C7: whenever the grid size field does not parse to an integer in
\* [1, MAX_GRID], a call of renderCurrentState starts no pass (buffers, counts
\* and the log of the last pass stay as they are), shows the validation
\* message and leaves currentGridSize unchanged; every animation frame is such
\* a call.
C7_InvalidGridNoPass ==
    [][ /\ (pc = "idle" /\ lastEvent' = "tick") => userVisibilityFunction # NoFn
        /\ (CalledRender /\ GridInputInvalid) =>
              /\ pc' = "idle"
              /\ errorMessage' = GridMessage
              /\ currentGridSize' = currentGridSize
              /\ UNCHANGED <<positions, colors, meshCount, visibleCount, passGrid,
                             passTime, calls, results>> ]_vars

\* An animation frame came with a field that does not parse to a valid size,
\* after an earlier pass: the message is shown and the pass data are kept.
C7_Witness ==
    /\ pc = "idle"
    /\ lastEvent = "tick"
    /\ GridInputInvalid
    /\ errorMessage = GridMessage
    /\ passGrid > 0
    /\ currentTime > passTime

\* The editor holds code that does not parse or that contains "document.",
\* "window." or "eval(".
EditorCodeBad ==
    \/ ~editor.parses
    \/ \E i \in DOMAIN editor.text : editor.text[i] \in {"document.", "window.", "eval("}

\* C8: processCodeAndRender rejects code that does not parse or contains
\* "document.", "window." or "eval("; while the last compile is a rejection no
\* pass is running or started, no animation frame is pending and the handle is
\* null, whatever events follow.
C8_RejectedHalts ==
    /\ (lastEvent = "process" /\ EditorCodeBad) => rejected
    /\ rejected =>
          /\ pc = "idle"
          /\ pendingFrames = {}
          /\ animationFrameId = NoFrame

\* A rejection after the loop had run with an accepted function, followed by a
\* grid-size change or run click that compiled the rejected code again.
C8_Witness ==
    /\ rejected
    /\ userVisibilityFunction # NoFn
    /\ passGrid > 0
    /\ passTime > 0
    /\ ~GridInputInvalid
    /\ lastEvent = "process"
    /\ ~debouncePending

\* A pass starts in this step, after an earlier one.
NextPassStarts == pc = "idle" /\ pc' # "idle" /\ passGrid > 0

\* C9 as stated: the time handed to a pass is never smaller than the time
\* handed to the pass before it.
C9_TimeNeverDecreases ==
    [][ NextPassStarts => passTime' >= passTime ]_vars

\* C9 amended: every animation frame advances the time by one step, a
\* successful compile resets it to 0 and nothing else changes it; a pass gets
\* the current time, which is smaller than that of the pass before only when a
\* successful compile came in between.
C9_TimeAdvancesOrResets ==
    [][ pc = "idle" =>
          /\ lastEvent' = "tick" => currentTime' = currentTime + 1
          /\ (lastEvent' = "process" /\ ~rejected') => currentTime' = 0
          /\ (lastEvent' = "input" \/ rejected') => currentTime' = currentTime
          /\ pc' # "idle" => passTime' = currentTime'
          /\ (NextPassStarts /\ passTime' < passTime) =>
                (resetSincePass \/ (lastEvent' = "process" /\ ~rejected')) ]_vars

\* A pass at time 0 started by a successful compile, after frames had advanced
\* the time.
C9_Witness ==
    /\ pc # "idle"
    /\ lastEvent = "process"
    /\ passTime = 0
    /\ nextFrameId >= 3
    /\ after = "none"

\* C10: between handlers at most one animationLoop callback is pending and
\* animationFrameId is non-null exactly when one is, holding its handle; while
\* a frame's pass runs no callback is pending.
C10_SingleFramePending ==
    /\ Cardinality(pendingFrames) <= 1
    /\ pc = "idle" =>
          /\ (animationFrameId # NoFrame) <=> (pendingFrames # {})
          /\ animationFrameId # NoFrame => pendingFrames = {animationFrameId[1]}
    /\ (pc # "idle" /\ after = "raf") => pendingFrames = {}

\* A successful compile while the loop was already running left one callback.
C10_Witness ==
    /\ pc = "idle"
    /\ lastEvent = "process"
    /\ ~rejected
    /\ nextFrameId >= 2
    /\ pendingFrames = {nextFrameId}
    /\ animationFrameId = <<nextFrameId>>

====
